---- MODULE Spec2Model ----
(***************************************************************************)
(* Model of util/file.go: CopyFolderContentsWithFilter and fileManifest.   *)
(*                                                                         *)
(* The filesystem is two disjoint trees, the source tree and the           *)
(* destination tree.  A path is the sequence of names below the tree's     *)
(* root, <<>> being the root itself.  The recursion of                     *)
(* CopyFolderContentsWithFilter is a stack of frames, one per directory    *)
(* level; since the callee's source and destination are the caller's       *)
(* joined with the same relative name, one relative path names both.       *)
(***************************************************************************)
EXTENDS Integers, Sequences, FiniteSets, TLC

\* ------------------------------------------------------------------ bounds
\* number of top-level calls of CopyFolderContentsWithFilter in a behaviour
MaxRuns == 2
\* number of filesystem operations that fail in a behaviour
MaxFaults == 1

\* ------------------------------------------------------------- name space
\* the manifestFile argument: the base name of every level's manifest record
manifestFile == "m"
\* entry names, in the lexical order filepath.Glob returns them in
NameSeq == <<".h", "d", "m", "z">>
Names == {NameSeq[i] : i \in DOMAIN NameSeq}
\* the names a subdirectory of the source or of the destination may have
DirNames == {"d"}
\* paths of depth zero (the root), one, and two below a subdirectory
Paths == {<<>>} \cup {<<n>> : n \in Names} \cup {<<n, k>> : n \in DirNames, k \in Names}

\* strings.HasPrefix(pathPart, "."), tabulated over the names and the two
\* special components
HasDotPrefix(part) == part \in {".h", ".", ".."}

\* permission bits are sets: "u" the owner bits, "g" and "o" group and other
\* the mode handed to os.OpenFile by fileManifest.Create
ManifestPerm == {"u", "g"}
\* the mode handed to os.MkdirAll for the parent of a copied file
ParentPerm == {"u"}

\* file contents are sequences of cells: raw bytes of a source file, one gob
\* message holding a path, or a run of zero bytes left by a write past the end
Raw(b) == [t |-> "raw", v |-> <<b>>]
Rec(p) == [t |-> "rec", v |-> p]
Zero == [t |-> "zero", v |-> <<>>]

NoNode == [k |-> "none", perm |-> {}, data |-> <<>>]
FileNode(perm, data) == [k |-> "file", perm |-> perm, data |-> data]
DirNode(perm) == [k |-> "dir", perm |-> perm, data |-> <<>>]
\* a symbolic link to a directory: os.Stat follows it, so perm is the mode of
\* the directory it points to and the entries of that directory are the paths
\* below it; os.Lstat reports the link's own mode
LinkNode(perm) == [k |-> "link", perm |-> perm, data |-> <<>>]
LinkPerm == {"u", "g", "o"}

VARIABLES src, dst, filter, umask, stack, ret, status, open, closed, created,
          wrote, added, visited, pre, prev, dirty, runs, faults

vars == <<src, dst, filter, umask, stack, ret, status, open, closed, created,
          wrote, added, visited, pre, prev, dirty, runs, faults>>

\* ------------------------------------------------------ filesystem helpers
Parent(p) == SubSeq(p, 1, Len(p) - 1)
Child(d, n) == Append(d, n)
IsPrefix(p, q) == Len(p) <= Len(q) /\ SubSeq(q, 1, Len(p)) = p

\* os.Stat(path) succeeds
FileExists(t, p) == p \in DOMAIN t /\ t[p].k # "none"
\* os.Stat(path) succeeds and reports a directory
IsDir(t, p) == p \in DOMAIN t /\ t[p].k \in {"dir", "link"}
IsFile(t, p) == p \in DOMAIN t /\ t[p].k = "file"

\* os.Lstat(path).Mode(), taken of a path that IsDir accepted
Lstat(t, p) == IF t[p].k = "link" THEN LinkPerm ELSE t[p].perm

\* os.RemoveAll: the entry and everything below it; an absent path is no error
RemoveAll(t, p) == [q \in DOMAIN t |-> IF IsPrefix(p, q) THEN NoNode ELSE t[q]]

\* every proper ancestor of p, and p itself
Ancestors(p) == {SubSeq(p, 1, i) : i \in 0..Len(p)}

\* os.MkdirAll(p, perm): fails when p or an ancestor is a file; creates the
\* missing directories with perm less the umask; leaves existing ones alone
MkdirAllOk(t, p) == p \in DOMAIN t /\ \A q \in Ancestors(p) : t[q].k # "file"
MkdirAllMutChmod(t, p, perm, mask) ==
    [q \in DOMAIN t |-> IF q \in Ancestors(p) /\ t[q].k # "file"
                        THEN DirNode(perm \ mask) ELSE t[q]]
MkdirAll(t, p, perm, mask) ==
    [q \in DOMAIN t |-> IF q \in Ancestors(p) /\ t[q].k = "none"
                        THEN DirNode(perm \ mask) ELSE t[q]]

\* os.OpenFile(p, O_WRONLY|O_CREATE|O_TRUNC, perm): needs the parent directory
\* and fails on a directory; perm (less the umask) is used only when the file
\* is created, an existing file is truncated and keeps its mode
OpenTruncOk(t, p) == p \in DOMAIN t /\ Len(p) > 0 /\ IsDir(t, Parent(p)) /\ t[p].k # "dir"
OpenTrunc(t, p, perm, mask) ==
    [t EXCEPT ![p] = IF t[p].k = "file" THEN FileNode(t[p].perm, <<>>)
                     ELSE FileNode(perm \ mask, <<>>)]

\* a write of one cell through a handle whose offset is off
RECURSIVE Zeros(_)
Zeros(n) == IF n <= 0 THEN <<>> ELSE <<Zero>> \o Zeros(n - 1)
WriteAt(data, off, cell) ==
    IF off < Len(data) THEN [data EXCEPT ![off + 1] = cell]
    ELSE data \o Zeros(off - Len(data)) \o <<cell>>

\* --------------------------------------------------------------- the filter
\* GetPathRelativeTo(path, basePath) for a path below basePath
GetPathRelativeTo(path, basePath) == SubSeq(path, Len(basePath) + 1, Len(path))

PathContainsHiddenFileOrFolder(path) ==
    \E i \in DOMAIN path :
        HasDotPrefix(path[i]) /\ path[i] # "." /\ path[i] # ".."

\* a filter is the set of relative paths it accepts; this is the one that
\* CopyFolderContents passes
DefaultFilter == {<<n>> : n \in {k \in Names : ~PathContainsHiddenFileOrFolder(<<k>>)}}
AllFilter == {<<n>> : n \in Names}

\* line 165: filter(fileRelativePath)
AcceptsMutAll(f, rel) == TRUE
Accepts(f, rel) == rel \in f

\* ------------------------------------------------------------- fileManifest
\* newFileManifest(filepath.Join(destination, manifestFile))
ManifestPath(destination) == Child(destination, manifestFile)

\* the decode loop of Clean over the cells read from the record, from cell i:
\* a path is removed; bytes that are no gob message end the loop with io.EOF
\* or with an error (garbage), a torn message with io.ErrUnexpectedEOF;
\* failAt is the index of the removal that fails, 0 for none
RECURSIVE CleanLoop(_, _, _, _, _)
CleanLoop(t, cells, i, garbage, failAt) ==
    IF i > Len(cells) THEN [ok |-> TRUE, t |-> t]
    ELSE IF cells[i].t = "rec"
         THEN IF failAt = i THEN [ok |-> FALSE, t |-> t]
              ELSE CleanLoop(RemoveAll(t, cells[i].v), cells, i + 1, garbage, failAt)
         ELSE IF cells[i].t = "torn" THEN [ok |-> FALSE, t |-> t]
         ELSE [ok |-> garbage = "eof", t |-> t]

\* fileManifest.Clean on the record at path mp; fault names the step that
\* fails: "open" os.Open, "remove" the removal of the failAt-th path, "late"
\* file.Close or the removal of the record
CleanMutWipe(t, mp, garbage, fault, failAt) ==
    [ok |-> TRUE,
     t |-> [q \in DOMAIN t |-> IF IsPrefix(Parent(mp), q) /\ q # Parent(mp)
                               THEN NoNode ELSE t[q]]]
Clean(t, mp, garbage, fault, failAt) ==
    IF ~FileExists(t, mp) THEN [ok |-> TRUE, t |-> t]
    ELSE IF fault = "open" \/ t[mp].k = "dir" THEN [ok |-> FALSE, t |-> t]
    ELSE LET r == CleanLoop(t, t[mp].data, 1, garbage,
                            IF fault = "remove" THEN failAt ELSE 0)
         IN  IF ~r.ok \/ fault = "late" THEN [ok |-> FALSE, t |-> r.t]
             ELSE [ok |-> TRUE, t |-> RemoveAll(r.t, mp)]

\* fileManifest.Create
CreateOk(t, mp) == OpenTruncOk(t, mp)
Create(t, mp, mask) == OpenTrunc(t, mp, ManifestPerm, mask)

\* fileManifest.AddFile: one gob message written at the handle's offset
AddFileMutShared(t, mp, off, file) ==
    [t EXCEPT ![<<manifestFile>>].data = WriteAt(@, off, Rec(file))]
AddFile(t, mp, off, file) == [t EXCEPT ![mp].data = WriteAt(@, off, Rec(file))]
\* a write of the message that stops part way
Torn == [t |-> "torn", v |-> <<>>]
AddFileTorn(t, mp, off) == [t EXCEPT ![mp].data = WriteAt(@, off, Torn)]

\* the paths Clean would decode from a record, up to the first cell that is
\* no message
RECURSIVE Decoded(_)
Decoded(cells) ==
    IF cells = <<>> \/ Head(cells).t # "rec" THEN <<>>
    ELSE <<Head(cells).v>> \o Decoded(Tail(cells))

\* ------------------------------------------------------------------ copying
\* ioutil.WriteFile(destination, contents, mode)
WriteFileMutEmpty(t, p, data, perm, mask) == OpenTrunc(t, p, perm, mask)
WriteFile(t, p, data, perm, mask) == [OpenTrunc(t, p, perm, mask) EXCEPT ![p].data = data]

\* CopyFile: ReadFile(source), then WriteFileWithSamePermissions
WriteFileWithSamePermissions(s, t, source, destination, contents, mask) ==
    WriteFile(t, destination, contents, s[source].perm, mask)
CopyFile(s, t, source, destination, mask) ==
    WriteFileWithSamePermissions(s, t, source, destination, s[source].data, mask)

\* filepath.Glob(source + "/*"): the names in source, sorted; nothing when
\* source is no directory
Glob(s, source) ==
    IF ~IsDir(s, source) THEN <<>>
    ELSE SelectSeq(NameSeq, LAMBDA n : FileExists(s, Child(source, n)))

\* -------------------------------------------------------------- the state
\* src, dst   the source and the destination tree
\* filter     the filter argument, umask the process's file mode creation mask
\*            (empty in every behaviour: modes are created as requested)
\* stack      the call frames of CopyFolderContentsWithFilter, innermost last
\* ret        what the call that returned last returned to its caller
\* status     "idle" before the first top-level call, "running" during one,
\*            then its result, "ok" or "err"
\* open       destinations whose manifest has an open write handle
\* closed     how often Close was called per destination in this call
\* created, wrote, added, visited, pre, prev, dirty   the history of this call
\*            and a summary of the one before (read by the properties only)
\* runs, faults   counters for the bounds

FrameMutNoClean(d) == [dir |-> d, pc |-> "create", files |-> <<>>, off |-> 0]
FrameMutSame(d) == [dir |-> <<>>, pc |-> "clean", files |-> <<>>, off |-> 0]
Frame(d) == [dir |-> d, pc |-> "clean", files |-> <<>>, off |-> 0]
Top == stack[Len(stack)]
Running == status = "running" /\ stack # <<>>
SetTop(f) == [stack EXCEPT ![Len(stack)] = f]

EmptyTree == [p \in Paths |-> IF p = <<>> THEN DirNode({"u", "g", "o"}) ELSE NoNode]
NoTree == [p \in Paths |-> NoNode]

\* the source trees a behaviour starts from: a hidden file, a file "z", a
\* subdirectory "d" holding "z", and optionally a file named like the manifest
SrcTree(rootM) ==
    [p \in Paths |->
        CASE p = <<>> -> DirNode({"u", "g", "o"})
          [] p = <<".h">> -> FileNode({"u"}, <<Raw("x")>>)
          [] p = <<"z">> -> FileNode({"u", "g", "o"}, <<Raw("x")>>)
          [] p = <<"m">> /\ rootM -> FileNode({"u"}, <<>>)
          [] p = <<"d">> -> DirNode({"u", "g", "o"})
          [] p = <<"d", "z">> -> FileNode({"u", "g"}, <<Raw("x")>>)
          [] OTHER -> NoNode]

\* the destinations a behaviour starts from: missing, empty, or holding
\* entries that no earlier call recorded
ForeignTree ==
    [p \in Paths |->
        CASE p = <<>> -> DirNode({"u", "g", "o"})
          [] p = <<".h">> -> FileNode({"u"}, <<Raw("z")>>)
          [] p = <<"z">> -> FileNode({"u"}, <<Raw("z")>>)
          [] OTHER -> NoNode]

Init ==
    /\ \E rootM \in BOOLEAN : src = SrcTree(rootM)
    /\ dst \in {NoTree, EmptyTree, ForeignTree}
    /\ filter \in {DefaultFilter, AllFilter}
    /\ umask = {}
    /\ stack = <<>>
    /\ ret = "none"
    /\ status = "idle"
    /\ open = {}
    /\ closed = [p \in Paths |-> 0]
    /\ created = {}
    /\ wrote = {}
    /\ added = {}
    /\ visited = {}
    /\ pre = dst
    /\ prev = [status |-> "idle", wrote |-> {}, added |-> {}, visited |-> {},
               changed |-> FALSE, faults |-> 0]
    /\ dirty = FALSE
    /\ runs = 0
    /\ faults = 0

\* ------------------------------------------------- edits between the calls
\* one edit between two calls
Quiet == status \in {"ok", "err"} /\ ~dirty /\ runs < MaxRuns

SrcRemove ==
    /\ Quiet
    /\ \E p \in Paths \ {<<>>} :
        /\ FileExists(src, p)
        /\ src' = RemoveAll(src, p)
    /\ dirty' = TRUE
    /\ UNCHANGED <<dst, filter, umask, stack, ret, status, open, closed, created,
                   wrote, added, visited, pre, prev, runs, faults>>

SrcWrite ==
    /\ Quiet
    /\ \E p \in {<<"z">>, <<"m">>}, perm \in {{"u"}} :
        /\ IsDir(src, Parent(p))
        /\ ~IsDir(src, p)
        /\ src' = [src EXCEPT ![p] = FileNode(perm, <<Raw("y")>>)]
    /\ dirty' = TRUE
    /\ UNCHANGED <<dst, filter, umask, stack, ret, status, open, closed, created,
                   wrote, added, visited, pre, prev, runs, faults>>

\* the mode of a source subdirectory is changed
SrcChmod ==
    /\ Quiet
    /\ \E p \in {<<n>> : n \in DirNames} :
        /\ src[p].k = "dir"
        /\ src[p].perm # {"u"}
        /\ src' = [src EXCEPT ![p] = DirNode({"u"})]
    /\ dirty' = TRUE
    /\ UNCHANGED <<dst, filter, umask, stack, ret, status, open, closed, created,
                   wrote, added, visited, pre, prev, runs, faults>>

\* a source subdirectory is replaced by a symbolic link to a directory of
\* mode 0700 that holds the same entries
SrcLink ==
    /\ Quiet
    /\ \E p \in {<<n>> : n \in DirNames} :
        /\ src[p].k = "dir"
        /\ src' = [src EXCEPT ![p] = LinkNode({"u"})]
    /\ dirty' = TRUE
    /\ UNCHANGED <<dst, filter, umask, stack, ret, status, open, closed, created,
                   wrote, added, visited, pre, prev, runs, faults>>

SetFilter ==
    /\ Quiet
    /\ \E f \in {DefaultFilter, AllFilter, AllFilter \ {<<"d">>}} :
        /\ f # filter
        /\ filter' = f
    /\ dirty' = TRUE
    /\ UNCHANGED <<src, dst, umask, stack, ret, status, open, closed, created,
                   wrote, added, visited, pre, prev, runs, faults>>

\* ----------------------------------------------- CopyFolderContentsWithFilter
\* the top-level call
StartRun ==
    /\ status # "running"
    /\ runs < MaxRuns
    /\ stack' = <<Frame(<<>>)>>
    /\ status' = "running"
    /\ ret' = "none"
    /\ open' = {}
    /\ closed' = [p \in Paths |-> 0]
    /\ created' = {}
    /\ wrote' = {}
    /\ added' = {}
    /\ visited' = {<<>>}
    /\ pre' = dst
    /\ prev' = [status |-> status, wrote |-> wrote, added |-> added,
                visited |-> visited, changed |-> dirty, faults |-> faults]
    /\ dirty' = FALSE
    /\ runs' = runs + 1
    /\ UNCHANGED <<src, dst, filter, umask, faults>>

\* the innermost call returns r to its caller
Return(r) ==
    /\ stack' = SubSeq(stack, 1, Len(stack) - 1)
    /\ ret' = r
    /\ status' = IF Len(stack) = 1 THEN r ELSE status

MayFail == faults < MaxFaults
Hist == <<created, wrote, added, visited, pre, prev, dirty, runs>>

\* lines 146-149: manifest.Clean()
DoClean ==
    /\ Running
    /\ Top.pc = "clean"
    /\ LET mp == ManifestPath(Top.dir)
           n == IF IsFile(dst, mp) THEN Len(Decoded(dst[mp].data)) ELSE 0
       IN \E garbage \in {"eof", "err"},
             fault \in {"none", "open", "remove", "late"},
             failAt \in 1..4 :
            /\ fault # "none" => MayFail /\ IsFile(dst, mp)
            /\ fault = "remove" => failAt <= n
            /\ fault # "remove" => failAt = 1
            /\ LET r == Clean(dst, mp, garbage, fault, failAt)
               IN /\ dst' = r.t
                  /\ faults' = IF fault = "none" THEN faults ELSE faults + 1
                  /\ IF r.ok
                     THEN /\ stack' = SetTop([Top EXCEPT !.pc = "create"])
                          /\ UNCHANGED <<ret, status>>
                     ELSE Return("err")
    /\ UNCHANGED <<src, filter, umask, open, closed>>
    /\ UNCHANGED Hist
\* lines 150-152: manifest.Create()
DoCreate ==
    /\ Running
    /\ Top.pc = "create"
    /\ LET mp == ManifestPath(Top.dir)
       IN \E fault \in BOOLEAN :
            /\ fault => MayFail
            /\ faults' = IF fault THEN faults + 1 ELSE faults
            /\ IF ~fault /\ CreateOk(dst, mp)
               THEN /\ dst' = Create(dst, mp, umask)
                    /\ open' = open \cup {Top.dir}
                    /\ created' = created \cup {Top.dir}
                    /\ stack' = SetTop([Top EXCEPT !.pc = "glob", !.off = 0])
                    /\ UNCHANGED <<ret, status>>
               ELSE /\ Return("err")
                    /\ UNCHANGED <<dst, open, created>>
    /\ UNCHANGED <<src, filter, umask, closed, wrote, added, visited, pre, prev,
                   dirty, runs>>

\* lines 154-157: filepath.Glob; its only error is a malformed pattern
DoGlob ==
    /\ Running
    /\ Top.pc = "glob"
    /\ \E fault \in BOOLEAN :
        /\ fault => MayFail
        /\ faults' = IF fault THEN faults + 1 ELSE faults
        /\ IF fault
           THEN Return("err")
           ELSE /\ stack' = SetTop([Top EXCEPT !.pc = "loop", !.files = Glob(src, Top.dir)])
                /\ UNCHANGED <<ret, status>>
    /\ UNCHANGED <<src, dst, filter, umask, open, closed>>
    /\ UNCHANGED Hist

\* the entry the loop of line 159 is at
AtEntry == Running /\ Top.pc = "loop" /\ Top.files # <<>>
File == Child(Top.dir, Head(Top.files))
FileRelativePathMutRoot == GetPathRelativeTo(File, <<>>)
FileRelativePath == GetPathRelativeTo(File, Top.dir)
\* line 169: dest := filepath.Join(destination, fileRelativePath)
Dest == Top.dir \o FileRelativePath

\* lines 160-163: GetPathRelativeTo fails
RelFail ==
    /\ AtEntry
    /\ MayFail
    /\ faults' = faults + 1
    /\ Return("err")
    /\ UNCHANGED <<src, dst, filter, umask, open, closed>>
    /\ UNCHANGED Hist

\* lines 165-167: the filter rejects the entry
Skip ==
    /\ AtEntry
    /\ ~Accepts(filter, FileRelativePath)
    /\ stack' = SetTop([Top EXCEPT !.files = Tail(@)])
    /\ UNCHANGED <<src, dst, filter, umask, ret, status, open, closed, faults>>
    /\ UNCHANGED Hist

\* lines 171-183: a directory: Lstat, MkdirAll, then the recursive call
EnterDir ==
    /\ AtEntry
    /\ Accepts(filter, FileRelativePath)
    /\ IsDir(src, File)
    /\ \E fault \in BOOLEAN :
        /\ fault => MayFail
        /\ faults' = IF fault THEN faults + 1 ELSE faults
        /\ IF ~fault /\ MkdirAllOk(dst, Dest)
           THEN /\ dst' = MkdirAll(dst, Dest, Lstat(src, File), umask)
                /\ stack' = Append(SetTop([Top EXCEPT !.pc = "wait", !.files = Tail(@)]),
                                   Frame(Dest))
                /\ visited' = visited \cup {Dest}
                /\ UNCHANGED <<ret, status>>
           ELSE /\ Return("err")
                /\ UNCHANGED <<dst, visited>>
    /\ UNCHANGED <<src, filter, umask, open, closed, created, wrote, added, pre,
                   prev, dirty, runs>>

\* lines 181-183: the recursive call has returned
ResumeMutIgnore ==
    /\ Running
    /\ Top.pc = "wait"
    /\ stack' = SetTop([Top EXCEPT !.pc = "loop"])
    /\ ret' = "none"
    /\ UNCHANGED status
    /\ UNCHANGED <<src, dst, filter, umask, open, closed, faults>>
    /\ UNCHANGED Hist
Resume ==
    /\ Running
    /\ Top.pc = "wait"
    /\ IF ret = "err"
       THEN Return("err")
       ELSE /\ stack' = SetTop([Top EXCEPT !.pc = "loop"])
            /\ ret' = "none"
            /\ UNCHANGED status
    /\ UNCHANGED <<src, dst, filter, umask, open, closed, faults>>
    /\ UNCHANGED Hist

\* lines 185-194: a file: MkdirAll of the parent, CopyFile, manifest.AddFile.
\* fault: "early" for MkdirAll, ReadFile, Stat or the open of WriteFile,
\* "write" for the write of WriteFile after the file was opened and truncated,
\* "add" for an Encode that writes nothing, "torn" for one that writes a part
CopyEntry ==
    /\ AtEntry
    /\ Accepts(filter, FileRelativePath)
    /\ ~IsDir(src, File)
    /\ LET mp == ManifestPath(Top.dir)
           made == MkdirAll(dst, Parent(Dest), ParentPerm, umask)
           copied == CopyFile(src, made, File, Dest, umask)
       IN \E fault \in {"none", "early", "write", "add", "torn"} :
            /\ fault # "none" => MayFail
            /\ faults' = IF fault = "none" THEN faults ELSE faults + 1
            /\ IF fault = "early" \/ ~MkdirAllOk(dst, Parent(Dest)) \/ ~OpenTruncOk(made, Dest)
               THEN /\ Return("err")
                    /\ UNCHANGED <<dst, wrote, added>>
               ELSE IF fault = "write"
               THEN /\ dst' = OpenTrunc(made, Dest, src[File].perm, umask)
                    /\ Return("err")
                    /\ UNCHANGED <<wrote, added>>
               ELSE IF fault \in {"add", "torn"}
               THEN /\ dst' = IF fault = "add" THEN copied
                              ELSE AddFileTorn(copied, mp, Top.off)
                    /\ wrote' = wrote \cup {Dest}
                    /\ Return("err")
                    /\ UNCHANGED added
               ELSE /\ dst' = AddFile(copied, mp, Top.off, Dest)
                    /\ wrote' = wrote \cup {Dest}
                    /\ added' = added \cup {Dest}
                    /\ stack' = SetTop([Top EXCEPT !.files = Tail(@), !.off = @ + 1])
                    /\ UNCHANGED <<ret, status>>
    /\ UNCHANGED <<src, filter, umask, open, closed, created, visited, pre, prev,
                   dirty, runs>>

\* line 198: return manifest.Close()
DoClose ==
    /\ Running
    /\ Top.pc = "loop"
    /\ Top.files = <<>>
    /\ open' = open \ {Top.dir}
    /\ closed' = [closed EXCEPT ![Top.dir] = @ + 1]
    /\ \E fault \in BOOLEAN :
        /\ fault => MayFail
        /\ faults' = IF fault THEN faults + 1 ELSE faults
        /\ Return(IF fault THEN "err" ELSE "ok")
    /\ UNCHANGED <<src, dst, filter, umask>>
    /\ UNCHANGED Hist

Next ==
    \/ SrcRemove
    \/ SrcWrite
    \/ SrcChmod
    \/ SrcLink
    \/ SetFilter
    \/ StartRun
    \/ DoClean
    \/ DoCreate
    \/ DoGlob
    \/ RelFail
    \/ Skip
    \/ EnterDir
    \/ Resume
    \/ CopyEntry
    \/ DoClose

Spec == Init /\ [][Next]_vars

\* the steps of a call of CopyFolderContentsWithFilter: the call is one
\* sequential goroutine, so while it has not returned its next statement is
\* executed; the edits between calls and the start of a call are left to
\* the caller
Call ==
    \/ DoClean
    \/ DoCreate
    \/ DoGlob
    \/ RelFail
    \/ Skip
    \/ EnterDir
    \/ Resume
    \/ CopyEntry
    \/ DoClose
FairSpec == Spec /\ WF_vars(Call)

\* --------------------------------------------------------------- properties
Name(p) == GetPathRelativeTo(p, Parent(p))
Range(q) == {q[i] : i \in DOMAIN q}
NoDup(q) == \A i, j \in DOMAIN q : q[i] = q[j] => i = j
Entries == Paths \ {<<>>}
\* the top-level call has returned and nothing was edited since
Returned == status \in {"ok", "err"} /\ ~dirty
Succeeded == status = "ok" /\ ~dirty
\* no filesystem operation failed by injection during this call
NoFault == faults = prev.faults
\* the record of F's directory in tree t decodes to a sequence holding F
Listed(t, F) ==
    /\ IsFile(t, ManifestPath(Parent(F)))
    /\ F \in Range(Decoded(t[ManifestPath(Parent(F))].data))
\* the filter rejects the name of p or of a directory above it
Rejected(p) == \E q \in Ancestors(p) \ {<<>>} : Name(q) \notin filter
\* p is a source entry reachable through accepted entries
Mirrored(p) == FileExists(src, p) /\ ~Rejected(p)
NotRecord(p) == Name(p) # <<manifestFile>>
SameAsSource(p) ==
    /\ IsDir(dst, p) <=> IsDir(src, p)
    /\ IsFile(dst, p) <=> IsFile(src, p)
    /\ IsFile(src, p) => dst[p].data = src[p].data
\* p is as it was before the call, and the call's Clean had no record of it
LeftAlone(p) == dst[p] = pre[p] /\ ~(Parent(p) \in visited /\ Listed(pre, p))

\* C1: after two consecutive successful calls, a file F that the first call
\* wrote directly into a directory the second call visits, and whose source
\* counterpart is gone or is now rejected by the filter, does not exist.
C1_StaleFileRemoval ==
    (Succeeded /\ prev.status = "ok") =>
        \A F \in prev.wrote :
            (Parent(F) \in visited /\ (~FileExists(src, F) \/ Name(F) \notin filter))
                => ~FileExists(dst, F)

C3_ResultExact ==
    Succeeded => \A p \in Entries : NotRecord(p) =>
        IF Mirrored(p) THEN SameAsSource(p) ELSE ~FileExists(dst, p)

\* C3 (amended): after a successful call, manifest records aside, every
\* mirrored source entry is present with the source's bytes, and any other
\* entry present was there before the call, is unchanged by it and was not
\* listed in the prior manifest record of a directory that the call visited.
C3_MirrorAndLeftovers ==
    Succeeded => \A p \in Entries : NotRecord(p) =>
        IF Mirrored(p) THEN SameAsSource(p)
        ELSE FileExists(dst, p) => LeftAlone(p)

\* C3 witness: a call succeeded, it copied a file whose destination differed
\* before, and an entry that is no part of the mirror is still present.
C3_Witness ==
    /\ Succeeded
    /\ \E p \in wrote : NotRecord(p) /\ Mirrored(p) /\ dst[p] # pre[p]
    /\ \E q \in Entries : NotRecord(q) /\ ~Mirrored(q) /\ FileExists(dst, q)

\* C4: a second successful call with the same source, destination and filter
\* leaves the destination tree, permission bits and records included, as the
\* first call left it.
C4_Idempotent ==
    (Succeeded /\ prev.status = "ok" /\ ~prev.changed) => dst = pre

\* C5: after a successful call the record of every visited directory D
\* decodes to exactly the files the call copied directly into D, each once.
C5_ManifestComplete ==
    Succeeded => \A D \in visited :
        /\ IsFile(dst, ManifestPath(D))
        /\ NoDup(Decoded(dst[ManifestPath(D)].data))
        /\ Range(Decoded(dst[ManifestPath(D)].data)) = {F \in wrote : Parent(F) = D}

\* C6: a call whose top-level destination does not exist creates it and
\* succeeds (no filesystem operation failing for another reason).
C6_DestinationCreated ==
    (Returned /\ ~FileExists(pre, <<>>) /\ NoFault) => (status = "ok" /\ IsDir(dst, <<>>))

\* C7: when the top-level call has returned, with success or with an error,
\* no manifest write handle is open and Close was called exactly once for
\* every manifest whose Create succeeded.
C7_ClosedExactlyOnce ==
    Returned => (open = {} /\ \A D \in created : closed[D] = 1)

\* C8: right after a file is copied, the destination file's permission bits
\* equal the source file's, also when the destination file existed before.
C8_PermissionPreserved ==
    [][\A p \in wrote' \ wrote : dst'[p].perm = src[p].perm]_vars

\* C9: a failing operation makes its level return an error at once, and while
\* an error is on its way up every step is an enclosing level returning that
\* error: nothing is copied, created or appended, and the top-level call ends
\* with an error.
C9_ErrorPropagates ==
    [][/\ faults' > faults =>
            /\ stack' = SubSeq(stack, 1, Len(stack) - 1)
            /\ ret' = "err"
            /\ added' = added
       /\ (status = "running" /\ ret = "err") =>
            /\ stack' = SubSeq(stack, 1, Len(stack) - 1)
            /\ ret' = "err"
            /\ status' = (IF Len(stack) = 1 THEN "err" ELSE "running")
            /\ dst' = dst
            /\ wrote' = wrote /\ added' = added /\ visited' = visited]_vars

\* C9 witness: an error raised in a nested level, after files were copied, is
\* on its way up through the enclosing level.
C9_Witness ==
    status = "running" /\ ret = "err" /\ stack # <<>> /\ wrote # {} /\ Top.files # <<>>

\* C10: after a call that an error aborted, the next successful call leaves no
\* file that the aborted call wrote into a revisited directory, unless it
\* copied that file again.
C10_SelfHealing ==
    (Succeeded /\ prev.status = "err") =>
        \A F \in prev.wrote : (Parent(F) \in visited /\ F \notin wrote) => ~FileExists(dst, F)

\* the directory S and everything below it is as it was when the call started
SubtreeUntouched(S) == \A p \in Paths : IsPrefix(S, p) => dst[p] = pre[p]
\* S was visited by the previous call and the source no longer offers it
Stale(S) == S \in prev.visited \ {<<>>} /\ (~FileExists(src, S) \/ Rejected(S))

\* C11: when a source subdirectory that the previous call mirrored has been
\* removed from the source or is now rejected by the filter, the next call,
\* at every step and after it returned, has not visited the destination
\* subdirectory and has left it, its record and the files in it unchanged.
C11_StaleDirectoryGap ==
    (status # "idle" /\ ~dirty) =>
        \A S \in Paths : Stale(S) => (S \notin visited /\ SubtreeUntouched(S))

\* C11 witness: the first call mirrored a subdirectory, the subdirectory was
\* then removed from the source, and the second call succeeded: the
\* destination subdirectory, its record and a file in it are still there.
C11_Witness ==
    /\ Succeeded
    /\ prev.status = "ok"
    /\ \E S \in prev.visited \ {<<>>} :
        /\ ~FileExists(src, S)
        /\ IsDir(dst, S)
        /\ Listed(dst, Child(S, "z"))
        /\ IsFile(dst, Child(S, "z"))

\* the depth of a tree: the length of its deepest directory path
Depth(t) == CHOOSE n \in 0..2 :
    /\ \E p \in Paths : IsDir(t, p) /\ Len(p) = n
    /\ \A p \in Paths : IsDir(t, p) => Len(p) <= n

LevelsInOrder ==
    \A i \in DOMAIN stack :
        LET D == stack[i].dir
        IN  IF stack[i].pc \in {"clean", "create"}
            THEN D \notin created /\ D \notin open /\ closed[D] = 0
                 /\ \A F \in wrote : Parent(F) # D
            ELSE D \in created /\ D \in open /\ closed[D] = 0

\* the positions a level passes through, in the order of the code
PcOrder ==
    {<<"clean", "create">>, <<"create", "glob">>, <<"glob", "loop">>,
     <<"loop", "wait">>, <<"wait", "loop">>}

\* C13: every level starts with Clean, then Create, then its AddFiles, then
\* Close; a file is written into a directory only between the Create and the
\* Close of that directory's level; and a level's Close comes when every
\* level below it has returned, each closed before it.
C13_LifecycleOrder ==
    /\ []LevelsInOrder
    /\ [][/\ Len(stack') > Len(stack) =>
                /\ Len(stack') = Len(stack) + 1
                /\ stack'[Len(stack')].pc = "clean"
          /\ \A i \in DOMAIN stack \cap DOMAIN stack' :
                stack'[i].pc # stack[i].pc =>
                    /\ i = Len(stack)
                    /\ <<stack[i].pc, stack'[i].pc>> \in PcOrder
          /\ \A D \in created' \ created :
                Running /\ D = Top.dir /\ Top.pc = "create"
          /\ \A F \in (wrote' \ wrote) \cup (added' \ added) :
                Running /\ Top.pc = "loop" /\ Parent(F) = Top.dir
          /\ \A p \in Paths :
                (status = "running" /\ IsFile(dst', p) /\ dst'[p] # dst[p]) =>
                    \/ Top.pc = "create" /\ p = ManifestPath(Top.dir)
                    \/ Top.pc = "loop" /\ Parent(p) = Top.dir
          /\ \A D \in Paths :
                closed'[D] > closed[D] =>
                    /\ Running /\ D = Top.dir /\ Top.pc = "loop" /\ Top.files = <<>>
                    /\ \A S \in visited :
                        (IsPrefix(D, S) /\ S # D) => (closed[S] = 1 /\ S \notin open)
         ]_vars

\* C13 witness: a call has returned with success after a subdirectory's level
\* and then the top level recorded files and closed their manifests.
C13_Witness ==
    /\ Succeeded
    /\ \E S \in visited \ {<<>>} :
        /\ closed[S] = 1 /\ closed[<<>>] = 1
        /\ \E F \in added : Parent(F) = S
        /\ \E F \in added : Parent(F) = <<>>

\* the paths of all the messages a record holds
Recorded(cells) == {cells[i].v : i \in {j \in DOMAIN cells : cells[j].t = "rec"}}
\* this step is a Clean of the innermost level that returns success
CleanSucceeds ==
    /\ Running /\ Top.pc = "clean"
    /\ Len(stack') = Len(stack) /\ stack'[Len(stack')].pc = "create"

\* C14: when Clean returns success, no path recorded in the manifest record
\* exists any more and the record is gone; when there is no record, Clean
\* returns success and changes nothing.
C14_CleanPostcondition ==
    [][/\ CleanSucceeds =>
            LET mp == ManifestPath(Top.dir)
            IN  IF FileExists(dst, mp)
                THEN /\ \A F \in Recorded(dst[mp].data) : ~FileExists(dst', F)
                     /\ ~FileExists(dst', mp)
                ELSE dst' = dst
       /\ (Running /\ Top.pc = "clean" /\ ~FileExists(dst, ManifestPath(Top.dir)))
            => CleanSucceeds
      ]_vars

\* C15: in every state, every path that the record of a destination directory
\* D holds names an entry directly in D, so a file written into a
\* subdirectory is recorded in that subdirectory's record only; and no two
\* levels of a call work on the same directory and manifest.
C15_ManifestScoped ==
    /\ \A D \in Paths :
        IsFile(dst, ManifestPath(D)) =>
            \A F \in Recorded(dst[ManifestPath(D)].data) : Parent(F) = D
    /\ \A i, j \in DOMAIN stack :
        i # j => ManifestPath(stack[i].dir) # ManifestPath(stack[j].dir)

\* C15 witness: a nested level is running, and both its record and the record
\* of the level above hold the path of a file.
C15_Witness ==
    /\ Running
    /\ Len(stack) = 2
    /\ IsFile(dst, ManifestPath(stack[1].dir))
    /\ IsFile(dst, ManifestPath(stack[2].dir))
    /\ Recorded(dst[ManifestPath(stack[1].dir)].data) # {}
    /\ Recorded(dst[ManifestPath(stack[2].dir)].data) # {}

\* C16: the filter is called with the entry's own name, the path relative to
\* the directory being listed; so after a successful call a source file is
\* copied, and a source directory visited, exactly when the filter accepts
\* its own name and the own name of every directory above it.
C16_FilterScoped ==
    /\ AtEntry => FileRelativePath = <<Head(Top.files)>>
    /\ Succeeded => \A p \in Entries :
        /\ IsFile(src, p) => (p \in wrote <=> ~Rejected(p))
        /\ IsDir(src, p) => (p \in visited <=> ~Rejected(p))

\* C16 witness: a call succeeded and copied a file two levels below the root
\* whose path relative to the root the filter does not accept, while it
\* accepts each name on it.
C16_Witness ==
    /\ Succeeded
    /\ \E p \in wrote :
        /\ Len(p) = 2
        /\ ~Accepts(filter, p)
        /\ Accepts(filter, Name(p)) /\ Accepts(filter, Name(Parent(p)))

\* C17: after a successful call every destination subdirectory that the call
\* visited has the permission bits of its source subdirectory (those of the
\* directory a symbolic link points to), also when the destination
\* subdirectory existed before the call.
C17_DirPermissionPreserved ==
    Succeeded => \A S \in visited \ {<<>>} : dst[S].perm = src[S].perm

\* C18: in every state of every call, no file copy has written to the path of
\* a directory's manifest record, and no record holds its own path.
C18_RecordNotMirrored ==
    \A D \in Paths :
        /\ ManifestPath(D) \notin wrote
        /\ IsFile(dst, ManifestPath(D)) =>
                ManifestPath(D) \notin Recorded(dst[ManifestPath(D)].data)

\* C19: whenever a call has returned, with success or with an error, every
\* file it wrote directly into a destination directory D is among the paths
\* that the next Clean will decode from D's record.
C19_RecordedBeforeAbandoned ==
    Returned => \A F \in wrote : Listed(dst, F)

\* C20: a step of a call changes nothing in the source; a destination path it
\* removes is recorded in the record of the directory whose Clean is running,
\* or is that record; a destination path it creates or overwrites is the
\* record of a visited directory or the counterpart of a source entry that
\* the filter accepts.  Every other path is left as it is.
C20_Frame ==
    [][status = "running" =>
        /\ src' = src
        /\ \A p \in Paths :
            dst'[p] # dst[p] =>
                IF dst'[p].k = "none"
                THEN /\ Top.pc = "clean"
                     /\ Top.dir \in visited
                     /\ \/ p = ManifestPath(Top.dir)
                        \/ p \in Recorded(dst[ManifestPath(Top.dir)].data)
                ELSE \/ \E D \in visited' : p = ManifestPath(D)
                     \/ p \in Entries /\ Mirrored(p)
      ]_vars

\* C20 witness: a call has succeeded that removed a file listed in the prior
\* record, copied a file, and left in place an unchanged entry that is
\* neither mirrored nor a record.
C20_Witness ==
    /\ Succeeded
    /\ \E p \in Entries : Listed(pre, p) /\ NotRecord(p) /\ ~FileExists(dst, p)
    /\ \E q \in Entries :
        NotRecord(q) /\ ~Mirrored(q) /\ FileExists(dst, q) /\ dst[q] = pre[q]
    /\ \E r \in wrote : NotRecord(r)
====
